---- MODULE Spec2Model ----
(***************************************************************************)
(* Model of wallet_manager.py: the command line tool that creates          *)
(* custodial wallets, lists them, shows balances and sends tokens through  *)
(* a remote wallet service, polling the transfer until it settles.         *)
(*                                                                         *)
(* One behaviour is one run of the tool (one process): main() dispatches   *)
(* one command.  The remote service, the clock, the wallet directory on    *)
(* disk and the operator's answer are the environment.  Text that the code *)
(* lower-cases or searches (command, asset id, confirmation, transfer      *)
(* status) is a sequence of one-character strings.                         *)
(***************************************************************************)
EXTENDS Integers, Sequences, FiniteSets, TLC

(***************************************************************************)
(* Bounds of the model.                                                    *)
(***************************************************************************)
\* largest balance the remote service reports for an asset
MaxBalance == 2
\* largest quantity given on the command line
MaxQuantity == 2
\* largest timeout_minutes passed to _wait_for_transfer when it is explored alone
MaxTimeoutMinutes == 1
\* longest time, in seconds, one transfer.reload() takes when timing is explored
MaxLatency == 1
\* longest time, in seconds, time.sleep(2) oversleeps when timing is explored
MaxJitter == 1

(***************************************************************************)
(* Program constants.                                                      *)
(***************************************************************************)
\* def _wait_for_transfer(self, transfer, timeout_minutes=10)
DefaultTimeoutMinutes == 10
\* timedelta(minutes=timeout_minutes), with the clock counted in seconds
SecondsPerMinute == 60
\* time.sleep(2)
PollInterval == 2

(***************************************************************************)
(* Text.                                                                   *)
(***************************************************************************)
UpperLetters ==
    <<"A","B","C","D","E","F","G","H","I","J","K","L","M",
      "N","O","P","Q","R","S","T","U","V","W","X","Y","Z">>
LowerLetters ==
    <<"a","b","c","d","e","f","g","h","i","j","k","l","m",
      "n","o","p","q","r","s","t","u","v","w","x","y","z">>

LowerChar(c) ==
    IF \E i \in 1..26 : UpperLetters[i] = c
    THEN LowerLetters[CHOOSE i \in 1..26 : UpperLetters[i] = c]
    ELSE c

\* str.lower()
Lower(s) == [i \in 1..Len(s) |-> LowerChar(s[i])]

\* sub in s
Contains(sub, s) ==
    \E i \in 1..(Len(s) - Len(sub) + 1) : SubSeq(s, i, i + Len(sub) - 1) = sub

T_complete == <<"c","o","m","p","l","e","t","e">>
T_failed == <<"f","a","i","l","e","d">>
T_pending == <<"p","e","n","d","i","n","g">>
T_usdc == <<"u","s","d","c">>
T_eth == <<"e","t","h">>
T_yes == <<"y","e","s">>
T_create_wallet == <<"c","r","e","a","t","e","-","w","a","l","l","e","t">>
T_list_wallets == <<"l","i","s","t","-","w","a","l","l","e","t","s">>
T_send == <<"s","e","n","d">>
T_show_balance == <<"s","h","o","w","-","b","a","l","a","n","c","e">>

\* status texts the remote service may report for a transfer
Statuses ==
    { <<"P","e","n","d","i","n","g">>,
      <<"C","O","M","P","L","E","T","E">>,
      <<"f","a","i","l","e","d">>,
      <<"a","r","c","h","i","v","e","d">>,
      <<"f","a","i","l","e","d","_","p","e","n","d","i","n","g">>,
      <<"c","o","m","p","l","e","t","e","_","f","a","i","l","e","d">>,
      <<"p","e","n","d","i","n","g","_","c","o","m","p","l","e","t","e">> }

None == "None"

\* Classify that looks for "pending" before "failed"
ClassifyPendingFirst(current_status) ==
    LET status_str == Lower(current_status) IN
    IF Contains(T_complete, status_str) THEN "complete"
    ELSE IF Contains(T_pending, status_str) THEN "pending"
    ELSE IF Contains(T_failed, status_str) THEN "failed"
    ELSE "unexpected"

\* Classify that takes a status it does not know for a pending one
ClassifyUnknownAsPending(current_status) ==
    LET status_str == Lower(current_status) IN
    IF Contains(T_complete, status_str) THEN "complete"
    ELSE IF Contains(T_failed, status_str) THEN "failed"
    ELSE "pending"

\* Classify that looks for "failed" before "complete"
ClassifyFailedFirst(current_status) ==
    LET status_str == Lower(current_status) IN
    IF Contains(T_failed, status_str) THEN "failed"
    ELSE IF Contains(T_complete, status_str) THEN "complete"
    ELSE IF Contains(T_pending, status_str) THEN "pending"
    ELSE "unexpected"

\* the four branches of the status classification in _wait_for_transfer
Classify(current_status) ==
    LET status_str == Lower(current_status) IN
    IF Contains(T_complete, status_str) THEN "complete"
    ELSE IF Contains(T_failed, status_str) THEN "failed"
    ELSE IF Contains(T_pending, status_str) THEN "pending"
    ELSE "unexpected"

(***************************************************************************)
(* Values.                                                                 *)
(***************************************************************************)
Addresses == {"0xA", "0xB"}
TestNetwork == "base-sepolia"
Networks == {TestNetwork, "base-mainnet"}

\* asset ids under which the remote service keeps balances
AssetIds == {T_eth, T_usdc}
\* a wallet's balances: asset id -> amount, for the asset the wallet holds;
\* the wallets of the model hold no asset or one
BalanceDicts ==
    {<<>>} \cup {[k \in {id} |-> amount] : id \in AssetIds, amount \in 0..MaxBalance}

\* dict.get(key, default)
Get(d, key, default) == IF key \in DOMAIN d THEN d[key] ELSE default

\* the id the remote service gives the wallet with default address a
WalletId(a) == <<"wallet", a>>

\* wallet_data of create_wallet: the record kept in <wallet_path>/<address>.txt
WalletRecord(a, net) == [address |-> a, network |-> net, wallet_id |-> WalletId(a)]

VARIABLES
    \* the environment
    files,            \* wallet directory: address -> record in <address>.txt
    remote,           \* default addresses of the wallets the remote service knows
    remote_status,    \* the status the remote service holds for the transfer
    network,          \* self.network
    now,              \* datetime.now(), in seconds
    \* the process
    pc,               \* position in the code
    sys_argv,         \* sys.argv
    exit_code,        \* Running, then the process's exit status
    outcome,          \* the result the operation reports
    \* locals of send_tokens, show_balance, list_wallets and create_wallet
    from_address, to_address, quantity, asset_id,
    wallet_info,      \* content of the wallet file
    target_wallet,    \* wallet handle: NoWallet or [address, balances, reloaded]
    current_balance,
    confirm,
    wallet_address,   \* parameter of show_balance
    wallet,           \* the wallet create_wallet made, or the one list_wallets shows
    wallets,          \* list_wallets: the wallets still to show
    transfer,         \* transfer handle: None or [status]
    \* locals of _wait_for_transfer
    timeout_minutes, timeout, wait_result, wait_message,
    \* observation: the remote calls this process made, the arguments of its
    \* transfer call, the reloads that saw a pending status, the wallet
    \* directory as the process found it
    calls, transfer_call, pending_seen, files_at_start

env_vars == <<files, remote, network>>
send_vars == <<from_address, to_address, quantity, asset_id, wallet_info,
               target_wallet, current_balance, confirm, wallet_address, wallet,
               wallets>>
wait_vars == <<timeout_minutes, timeout, wait_result, wait_message, pending_seen,
               transfer_call, files_at_start, remote_status>>
vars == <<files, remote, remote_status, network, now, pc, sys_argv, exit_code, outcome,
          from_address, to_address, quantity, asset_id, wallet_info,
          target_wallet, current_balance, confirm, wallet_address, wallet,
          wallets, transfer,
          timeout_minutes, timeout, wait_result, wait_message,
          calls, transfer_call, pending_seen, files_at_start>>

NoCalls ==
    [create |-> 0, list |-> 0, wallet_reload |-> 0, balances |-> 0,
     faucet |-> 0, transfer |-> 0, transfer_reload |-> 0, transfers |-> 0]

Called(name) == [calls EXCEPT ![name] = @ + 1]

\* target_wallet = None
NoWallet == [address |-> None, balances |-> <<>>, reloaded |-> FALSE]

\* a text variable that holds no text yet
NoText == <<None>>

\* exit_code while the process runs
Running == -1

\* every remote call returns or raises
RemoteResults == {"ok", "raise"}

(***************************************************************************)
(* The command line.                                                       *)
(***************************************************************************)
DigitChars == <<"0","1","2","3","4","5","6","7","8","9">>
IsDigit(c) == \E i \in 1..10 : DigitChars[i] = c
DigitValue(c) == (CHOOSE i \in 1..10 : DigitChars[i] = c) - 1

\* the text of a number, as typed on the command line
NumText(n) == IF n < 10 THEN <<DigitChars[n + 1]>>
              ELSE <<DigitChars[(n \div 10) + 1], DigitChars[(n % 10) + 1]>>

RECURSIVE DigitsValue(_)
DigitsValue(t) ==
    IF Len(t) = 0 THEN 0
    ELSE 10 * DigitsValue(SubSeq(t, 1, Len(t) - 1)) + DigitValue(t[Len(t)])

\* float(text) raises ValueError for text that is no number
FloatRaises(t) == ~(Len(t) > 0 /\ \A i \in 1..Len(t) : IsDigit(t[i]))

\* float(text), for the text of a number
ParseFloat(t) == DigitsValue(t)

Program == <<"w","a","l","l","e","t","_","m","a","n","a","g","e","r",".","p","y">>
\* the address the operator sends from (the other address of Addresses is a
\* wallet the send does not concern)
Sources == {"0xA"}
Destinations == {"0xC"}
QuantityTexts == {NumText(n) : n \in 1..MaxQuantity} \cup {<<"a","b","c">>}
AssetTexts == {T_usdc, <<"U","S","D","C">>, T_eth, <<"u","s","d">>}
CommandTexts ==
    {T_create_wallet, T_list_wallets, T_send, T_show_balance,
     <<"L","i","s","t","-","W","a","l","l","e","t","s">>, <<"h","e","l","p">>}
\* what the operator may type at the confirmation prompt
Answers == {T_yes, <<"Y","E","S">>, <<"y">>, <<"n","o">>, <<>>}

ArgvSet ==
    {<<Program>>}
    \cup {<<Program, c>> : c \in CommandTexts}
    \cup {<<Program, T_show_balance, a>> : a \in Addresses}
    \cup {<<Program, T_send, f, t, q, a>> :
            f \in Sources, t \in Destinations, q \in QuantityTexts, a \in AssetTexts}

\* sys.argv[i]
Arg(i) == sys_argv[i + 1]

\* the operation returns to main, which returns: the process ends normally
Return(result) ==
    /\ outcome' = result
    /\ exit_code' = 0
    /\ pc' = "exit"

\* sys.exit(1), or an exception nothing catches
Die(result) ==
    /\ outcome' = result
    /\ exit_code' = 1
    /\ pc' = "exit"

\* the next statement
Goto(label) ==
    /\ pc' = label
    /\ UNCHANGED <<outcome, exit_code>>

\* SendExcept that ends the process as create_wallet's handler does
SendExceptFatal == Die([kind |-> "error_sending_tokens"])

\* an exception inside send_tokens: except Exception as e: print
\* "Error sending tokens", and the operation returns
SendExcept == Return([kind |-> "error_sending_tokens"])

(***************************************************************************)
(* _wait_for_transfer                                                      *)
(***************************************************************************)
\* start_time = datetime.now(); timeout = start_time + timedelta(minutes=...)
WaitStart ==
    /\ pc = "wait_start"
    /\ timeout' = now + timeout_minutes * SecondsPerMinute
    /\ Goto("wait_check")
    /\ UNCHANGED <<env_vars, now, sys_argv, send_vars, transfer, timeout_minutes,
                   wait_result, wait_message, calls, pending_seen, transfer_call,
                   files_at_start, remote_status>>

\* return <result> of _wait_for_transfer, after the message it prints
WaitReturn(message, result) ==
    /\ wait_message' = message
    /\ wait_result' = result
    /\ Goto("send_after_wait")

\* WaitTimedOut that reports the timeout with the message of a failure
WaitTimedOutAsFailed == WaitReturn("failed", FALSE)

\* the end of the loop: print "Transfer timed out ..."; return False
WaitTimedOut == WaitReturn("timed_out", FALSE)

\* WaitCheck with the deadline included: while datetime.now() <= timeout
WaitCheckInclusive ==
    /\ pc = "wait_check"
    /\ IF now <= timeout
       THEN /\ Goto("wait_reload")
            /\ UNCHANGED <<wait_result, wait_message>>
       ELSE WaitTimedOut
    /\ UNCHANGED <<env_vars, now, sys_argv, send_vars, transfer, timeout_minutes,
                   timeout, calls, pending_seen, transfer_call, files_at_start,
                   remote_status>>

\* WaitCheck of a loop that tests the deadline after its body: the first
\* reload is made whatever the time
WaitCheckAfterBody ==
    /\ pc = "wait_check"
    /\ IF now < timeout \/ calls.transfer_reload = 0
       THEN /\ Goto("wait_reload")
            /\ UNCHANGED <<wait_result, wait_message>>
       ELSE WaitTimedOut
    /\ UNCHANGED <<env_vars, now, sys_argv, send_vars, transfer, timeout_minutes,
                   timeout, calls, pending_seen, transfer_call, files_at_start,
                   remote_status>>

\* while datetime.now() < timeout
WaitCheck ==
    /\ pc = "wait_check"
    /\ IF now < timeout
       THEN /\ Goto("wait_reload")
            /\ UNCHANGED <<wait_result, wait_message>>
       ELSE WaitTimedOut
    /\ UNCHANGED <<env_vars, now, sys_argv, send_vars, transfer, timeout_minutes,
                   timeout, calls, pending_seen, transfer_call, files_at_start,
                   remote_status>>

\* WaitBranch that keeps polling after a failed status
WaitBranchRetriesFailed(current_status) ==
    LET branch == Classify(current_status) IN
    CASE branch = "complete" -> WaitReturn("completed", TRUE)
      [] branch \in {"failed", "pending"} ->
           /\ Goto("wait_sleep")
           /\ UNCHANGED <<wait_result, wait_message>>
      [] OTHER -> WaitReturn("unexpected_status", FALSE)

\* WaitBranch that submits the transfer again after a failed status
WaitBranchResubmits(current_status) ==
    LET branch == Classify(current_status) IN
    CASE branch = "complete" -> WaitReturn("completed", TRUE)
      [] branch = "failed" ->
           /\ Goto("send_transfer")
           /\ UNCHANGED <<wait_result, wait_message>>
      [] branch = "pending" ->
           /\ Goto("wait_sleep")
           /\ UNCHANGED <<wait_result, wait_message>>
      [] OTHER -> WaitReturn("unexpected_status", FALSE)

\* the if/elif chain over status_str in _wait_for_transfer
WaitBranch(current_status) ==
    LET branch == Classify(current_status) IN
    CASE branch = "complete" -> WaitReturn("completed", TRUE)
      [] branch = "failed" -> WaitReturn("failed", FALSE)
      [] branch = "pending" ->
           /\ Goto("wait_sleep")
           /\ UNCHANGED <<wait_result, wait_message>>
      [] OTHER -> WaitReturn("unexpected_status", FALSE)

\* transfer.reload() and the classification of the status it brought.  The
\* call takes latency seconds; the remote service answers with the status it
\* holds by then, which may be any, or the call raises and the exception
\* leaves _wait_for_transfer.
WaitReload(latency) ==
    /\ pc = "wait_reload"
    /\ now' = now + latency
    /\ calls' = Called("transfer_reload")
    /\ \E r \in RemoteResults :
         IF r = "raise"
         THEN /\ SendExcept
              /\ UNCHANGED <<transfer, wait_result, wait_message, pending_seen,
                             remote_status>>
         ELSE \E s \in Statuses :
                /\ remote_status' = s
                /\ transfer' = [transfer EXCEPT !.status = remote_status']
                /\ pending_seen' = IF Classify(s) = "pending" THEN pending_seen + 1
                                   ELSE pending_seen
                /\ WaitBranch(s)
    /\ UNCHANGED <<env_vars, sys_argv, send_vars, timeout_minutes, timeout,
                   transfer_call, files_at_start>>

\* time.sleep(2); continue.  The sleep lasts at least 2 seconds.
WaitSleep(jitter) ==
    /\ pc = "wait_sleep"
    /\ now' = now + PollInterval + jitter
    /\ Goto("wait_check")
    /\ UNCHANGED <<env_vars, sys_argv, send_vars, transfer, wait_vars, calls>>

\* the remote service brings to a terminal status a transfer the loop has
\* given up on.  While the loop polls, the service's steps are part of the
\* next reload, which reads the status the service holds by then; once the
\* loop has timed out, nothing in this process reads it.
RemoteSettles ==
    /\ wait_message = "timed_out"
    /\ Classify(remote_status) = "pending"
    /\ \E s \in Statuses :
         /\ Classify(s) # "pending"
         /\ remote_status' = s
    /\ UNCHANGED <<env_vars, now, pc, sys_argv, exit_code, outcome, send_vars,
                   transfer, timeout_minutes, timeout, wait_result, wait_message,
                   pending_seen, transfer_call, files_at_start, calls>>

(***************************************************************************)
(* send_tokens                                                             *)
(***************************************************************************)
\* SendLoadWallet that opens the wallet file for writing, which empties it
SendLoadWalletTruncates ==
    /\ pc = "send_tokens"
    /\ IF from_address \notin DOMAIN files
       THEN /\ Return([kind |-> "wallet_file_not_found"])
            /\ UNCHANGED <<wallet_info, files>>
       ELSE /\ wallet_info' = files[from_address]
            /\ files' = [a \in DOMAIN files \ {from_address} |-> files[a]]
            /\ Goto("send_list")
    /\ UNCHANGED <<remote, network, now, sys_argv, from_address, to_address,
                   quantity, asset_id, target_wallet, current_balance, confirm,
                   wallet_address, wallet, wallets, transfer, wait_vars, calls>>

\* open(wallet_file) and json.load: FileNotFoundError ends the operation
SendLoadWallet ==
    /\ pc = "send_tokens"
    /\ IF from_address \notin DOMAIN files
       THEN /\ Return([kind |-> "wallet_file_not_found"])
            /\ UNCHANGED wallet_info
       ELSE /\ wallet_info' = files[from_address]
            /\ Goto("send_list")
    /\ UNCHANGED <<env_vars, now, sys_argv, from_address, to_address, quantity,
                   asset_id, target_wallet, current_balance, confirm,
                   wallet_address, wallet, wallets, transfer, wait_vars, calls>>

\* FindWallet that trusts the wallet file instead of the service's list
FindWalletByFile(address, known) ==
    IF address \in DOMAIN files
    THEN [address |-> address, balances |-> known, reloaded |-> FALSE]
    ELSE NoWallet

\* the wallet of Wallet.list() whose default address is address, with the
\* balances the service knew when it listed it
FindWallet(address, known) ==
    IF address \in remote
    THEN [address |-> address, balances |-> known, reloaded |-> FALSE]
    ELSE NoWallet

\* wallets = list(Wallet.list()) and the scan for from_address
SendFindWallet ==
    /\ pc = "send_list"
    /\ calls' = Called("list")
    /\ \E r \in RemoteResults :
         IF r = "raise"
         THEN /\ SendExcept
              /\ UNCHANGED target_wallet
         ELSE \E known \in BalanceDicts :
                /\ target_wallet' = FindWallet(from_address, known)
                /\ IF target_wallet' = NoWallet
                   THEN Return([kind |-> "wallet_not_found"])
                   ELSE Goto("send_reload")
    /\ UNCHANGED <<env_vars, now, sys_argv, from_address, to_address, quantity,
                   asset_id, wallet_info, current_balance, confirm,
                   wallet_address, wallet, wallets, transfer, wait_vars>>

\* Reloaded that leaves the handle as the list gave it
ReloadedNot(handle, current) == handle

\* wallet.reload(): the handle takes the service's current state
Reloaded(handle, current) ==
    [handle EXCEPT !.balances = current, !.reloaded = TRUE]

\* target_wallet.reload()
SendReloadWallet ==
    /\ pc = "send_reload"
    /\ calls' = Called("wallet_reload")
    /\ \E r \in RemoteResults :
         IF r = "raise"
         THEN /\ SendExcept
              /\ UNCHANGED target_wallet
         ELSE \E current \in BalanceDicts :
                /\ target_wallet' = Reloaded(target_wallet, current)
                /\ Goto("send_balance")
    /\ UNCHANGED <<env_vars, now, sys_argv, from_address, to_address, quantity,
                   asset_id, wallet_info, current_balance, confirm,
                   wallet_address, wallet, wallets, transfer, wait_vars>>

\* Insufficient with the comparison off by one: a balance equal to the
\* quantity is refused
InsufficientOrEqual(balance, required) == balance <= required

\* current_balance < quantity
Insufficient(balance, required) == balance < required

\* balances = target_wallet.balances(); asset_id = asset_id.lower();
\* current_balance = float(balances.get(asset_id, 0)); the guard.  An
\* exception here is reported as "Error checking balance".
SendCheckBalance ==
    /\ pc = "send_balance"
    /\ calls' = Called("balances")
    /\ \E r \in RemoteResults :
         IF r = "raise"
         THEN /\ Return([kind |-> "error_checking_balance"])
              /\ UNCHANGED <<asset_id, current_balance>>
         ELSE /\ asset_id' = Lower(asset_id)
              /\ current_balance' = Get(target_wallet.balances, asset_id', 0)
              /\ IF Insufficient(current_balance', quantity)
                 THEN Return([kind |-> "insufficient_balance",
                              required |-> quantity,
                              available |-> current_balance'])
                 ELSE Goto("send_confirm")
    /\ UNCHANGED <<env_vars, now, sys_argv, from_address, to_address, quantity,
                   wallet_info, target_wallet, confirm, wallet_address, wallet,
                   wallets, transfer, wait_vars>>

\* Declined that takes only 'no' for a refusal
DeclinedOnlyByNo(answer) == answer = <<"n","o">>

\* if confirm != 'yes'
Declined(answer) == answer # T_yes

\* confirm = input(...).lower(); anything but 'yes' cancels.  input() raises
\* EOFError when the prompt cannot be answered.
SendConfirm ==
    /\ pc = "send_confirm"
    /\ \/ \E answer \in Answers :
            /\ confirm' = Lower(answer)
            /\ IF Declined(confirm')
               THEN Return([kind |-> "cancelled"])
               ELSE Goto("send_transfer")
       \/ /\ SendExcept
          /\ UNCHANGED confirm
    /\ UNCHANGED <<env_vars, now, sys_argv, from_address, to_address, quantity,
                   asset_id, wallet_info, target_wallet, current_balance,
                   wallet_address, wallet, wallets, transfer, wait_vars, calls>>

\* Gasless that compares the lower-cased asset id with the upper-case name
GaslessUpperCase(asset) == asset = <<"U","S","D","C">>

\* gasless = asset_id == 'usdc'
Gasless(asset) == asset = T_usdc

\* transfer = target_wallet.transfer(amount, asset_id, destination, gasless),
\* then self._wait_for_transfer(transfer) with the default timeout
SendCreateTransfer ==
    /\ pc = "send_transfer"
    /\ calls' = Called("transfer")
    /\ transfer_call' = [amount |-> quantity, asset_id |-> asset_id,
                         destination |-> to_address, gasless |-> Gasless(asset_id)]
    /\ \E r \in RemoteResults :
         IF r = "raise"
         THEN /\ SendExcept
              /\ UNCHANGED <<transfer, timeout_minutes, remote_status>>
         ELSE \E s \in Statuses :
                /\ remote_status' = s
                /\ transfer' = [status |-> remote_status']
                /\ timeout_minutes' = DefaultTimeoutMinutes
                /\ Goto("wait_start")
    /\ UNCHANGED <<env_vars, now, sys_argv, send_vars, timeout, wait_result,
                   wait_message, pending_seen, files_at_start>>

\* the wallet's balances once the transfer is complete: the service has taken
\* the amount of the asset from the wallet
Settled(balances, asset, amount) ==
    [k \in DOMAIN balances |->
        IF k = asset
        THEN (IF balances[k] > amount THEN balances[k] - amount ELSE 0)
        ELSE balances[k]]

\* SendAfterWait that marks the handle of a transfer that did not complete
\* as failed
SendAfterWaitMarksFailed ==
    /\ pc = "send_after_wait"
    /\ IF wait_result
       THEN \E r \in {"ok", "reload_raises", "balances_raises"} :
              /\ UNCHANGED transfer
              /\ calls' = IF r = "reload_raises"
                          THEN Called("wallet_reload")
                          ELSE [calls EXCEPT !.wallet_reload = @ + 1,
                                             !.balances = @ + 1]
              /\ target_wallet' =
                    IF r = "reload_raises" THEN target_wallet
                    ELSE Reloaded(target_wallet,
                                  Settled(target_wallet.balances,
                                          transfer_call.asset_id,
                                          transfer_call.amount))
              /\ IF r = "ok"
                 THEN Return([kind |-> "transfer_completed"])
                 ELSE SendExcept
       ELSE /\ Return([kind |-> "transfer_failed_or_timed_out"])
            /\ transfer' = [transfer EXCEPT !.status = T_failed]
            /\ UNCHANGED <<target_wallet, calls>>
    /\ UNCHANGED <<env_vars, now, sys_argv, from_address, to_address, quantity,
                   asset_id, wallet_info, current_balance, confirm,
                   wallet_address, wallet, wallets, wait_vars>>

\* SendAfterWait that reloads the wallet whatever the loop returned
SendAfterWaitAlwaysReloads ==
    /\ pc = "send_after_wait"
    /\ \E r \in {"ok", "reload_raises", "balances_raises"} :
         /\ calls' = IF r = "reload_raises"
                     THEN Called("wallet_reload")
                     ELSE [calls EXCEPT !.wallet_reload = @ + 1,
                                        !.balances = @ + 1]
         /\ target_wallet' =
               IF r = "reload_raises" THEN target_wallet
               ELSE Reloaded(target_wallet,
                             IF wait_result
                             THEN Settled(target_wallet.balances,
                                          transfer_call.asset_id,
                                          transfer_call.amount)
                             ELSE target_wallet.balances)
         /\ IF r = "ok"
            THEN Return([kind |-> IF wait_result THEN "transfer_completed"
                                  ELSE "transfer_failed_or_timed_out"])
            ELSE SendExcept
    /\ UNCHANGED <<env_vars, now, sys_argv, from_address, to_address, quantity,
                   asset_id, wallet_info, current_balance, confirm,
                   wallet_address, wallet, wallets, transfer, wait_vars>>

\* if self._wait_for_transfer(transfer): target_wallet.reload() and
\* target_wallet.balances(); else report "Transfer failed or timed out!"
SendAfterWait ==
    /\ pc = "send_after_wait"
    /\ IF wait_result
       THEN \E r \in {"ok", "reload_raises", "balances_raises"} :
              /\ calls' = IF r = "reload_raises"
                          THEN Called("wallet_reload")
                          ELSE [calls EXCEPT !.wallet_reload = @ + 1,
                                             !.balances = @ + 1]
              /\ target_wallet' =
                    IF r = "reload_raises" THEN target_wallet
                    ELSE Reloaded(target_wallet,
                                  Settled(target_wallet.balances,
                                          transfer_call.asset_id,
                                          transfer_call.amount))
              /\ IF r = "ok"
                 THEN Return([kind |-> "transfer_completed"])
                 ELSE SendExcept
       ELSE /\ Return([kind |-> "transfer_failed_or_timed_out"])
            /\ UNCHANGED <<target_wallet, calls>>
    /\ UNCHANGED <<env_vars, now, sys_argv, from_address, to_address, quantity,
                   asset_id, wallet_info, current_balance, confirm,
                   wallet_address, wallet, wallets, transfer, wait_vars>>

(***************************************************************************)
(* create_wallet                                                           *)
(***************************************************************************)
\* wallet = Wallet.create(self.network): the service makes a wallet with a new
\* address.  An exception ends in sys.exit(1).
CreateWallet ==
    /\ pc = "create_wallet"
    /\ calls' = Called("create")
    /\ \/ \E a \in Addresses \ remote :
            /\ remote' = remote \cup {a}
            /\ wallet' = [address |-> a, balances |-> <<>>, reloaded |-> FALSE]
            /\ Goto("create_save")
       \/ /\ Die([kind |-> "error_creating_wallet"])
          /\ UNCHANGED <<remote, wallet>>
    /\ UNCHANGED <<files, network, now, sys_argv, from_address, to_address, quantity,
                   asset_id, wallet_info, target_wallet, current_balance, confirm,
                   wallet_address, wallets, transfer, wait_vars>>

\* Save that writes the default network into the record
SaveDefaultNetwork(dir, record) ==
    [a \in DOMAIN dir \cup {record.address} |->
        IF a = record.address THEN [record EXCEPT !.network = "base-sepolia"]
        ELSE dir[a]]

\* with open(filename, 'w'): the file <address>.txt is written, replacing any
\* file of that name
Save(dir, record) ==
    [a \in DOMAIN dir \cup {record.address} |->
        IF a = record.address THEN record ELSE dir[a]]

\* if self.network == 'base-sepolia'
FundsOnCreate(net) == net = "base-sepolia"

\* json.dump(wallet_data) into <address>.txt, then the funding decision; a
\* failing write ends in sys.exit(1)
CreateSave ==
    /\ pc = "create_save"
    /\ \/ /\ files' = Save(files, WalletRecord(wallet.address, network))
          /\ IF FundsOnCreate(network)
             THEN Goto("create_faucet")
             ELSE Return([kind |-> "wallet_created", faucet |-> "not_attempted"])
       \/ /\ Die([kind |-> "error_creating_wallet"])
          /\ UNCHANGED files
    /\ UNCHANGED <<remote, network, now, sys_argv, send_vars, transfer, wait_vars,
                   calls>>

\* FaucetFailed that lets the exception reach the outer handler
FaucetFailedFatal == Die([kind |-> "error_creating_wallet"])

\* except Exception as e: print "Note: Faucet funding failed"; the operation
\* goes on to its end
FaucetFailed == Return([kind |-> "wallet_created", faucet |-> "failed"])

\* faucet_tx = wallet.faucet(); faucet_tx.wait(); wallet.balances()
CreateFaucet ==
    /\ pc = "create_faucet"
    /\ \E r \in {"ok", "faucet_raises", "balances_raises"} :
         /\ calls' = IF r = "faucet_raises"
                     THEN Called("faucet")
                     ELSE [calls EXCEPT !.faucet = @ + 1, !.balances = @ + 1]
         /\ IF r = "ok"
            THEN Return([kind |-> "wallet_created", faucet |-> "funded"])
            ELSE FaucetFailed
    /\ UNCHANGED <<env_vars, now, sys_argv, send_vars, transfer, wait_vars>>

(***************************************************************************)
(* list_wallets                                                            *)
(***************************************************************************)
RECURSIVE SetToSeq(_)
SetToSeq(S) ==
    IF S = {} THEN <<>>
    ELSE LET x == CHOOSE y \in S : TRUE IN <<x>> \o SetToSeq(S \ {x})

\* wallets = list(Wallet.list())
ListWallets ==
    /\ pc = "list_wallets"
    /\ calls' = Called("list")
    /\ \E r \in RemoteResults :
         IF r = "raise"
         THEN /\ Return([kind |-> "error_listing_wallets"])
              /\ UNCHANGED wallets
         ELSE /\ wallets' = SetToSeq(remote)
              /\ Goto("list_show")
    /\ UNCHANGED <<env_vars, now, sys_argv, from_address, to_address, quantity,
                   asset_id, wallet_info, target_wallet, current_balance, confirm,
                   wallet_address, wallet, transfer, wait_vars>>

\* for wallet in wallets: wallet.reload(); wallet.balances()
ListShowWallet ==
    /\ pc = "list_show"
    /\ IF wallets = <<>>
       THEN /\ Return([kind |-> "wallets_listed"])
            /\ UNCHANGED <<wallet, wallets, calls>>
       ELSE \E r \in {"ok", "reload_raises", "balances_raises"} :
              /\ calls' = IF r = "reload_raises"
                          THEN Called("wallet_reload")
                          ELSE [calls EXCEPT !.wallet_reload = @ + 1,
                                             !.balances = @ + 1]
              /\ IF r = "ok"
                 THEN /\ \E current \in BalanceDicts :
                           wallet' = [address |-> Head(wallets),
                                      balances |-> current, reloaded |-> TRUE]
                      /\ wallets' = Tail(wallets)
                      /\ Goto("list_show")
                 ELSE /\ Return([kind |-> "error_listing_wallets"])
                      /\ UNCHANGED <<wallet, wallets>>
    /\ UNCHANGED <<env_vars, now, sys_argv, from_address, to_address, quantity,
                   asset_id, wallet_info, target_wallet, current_balance, confirm,
                   wallet_address, transfer, wait_vars>>

(***************************************************************************)
(* show_balance                                                            *)
(***************************************************************************)
\* open(wallet_file) and json.load: FileNotFoundError ends the operation
ShowLoadWallet ==
    /\ pc = "show_balance"
    /\ IF wallet_address \notin DOMAIN files
       THEN /\ Return([kind |-> "wallet_file_not_found"])
            /\ UNCHANGED wallet_info
       ELSE /\ wallet_info' = files[wallet_address]
            /\ Goto("show_list")
    /\ UNCHANGED <<env_vars, now, sys_argv, from_address, to_address, quantity,
                   asset_id, target_wallet, current_balance, confirm,
                   wallet_address, wallet, wallets, transfer, wait_vars, calls>>

\* wallets = list(Wallet.list()) and the scan for wallet_address
ShowFindWallet ==
    /\ pc = "show_list"
    /\ calls' = Called("list")
    /\ \E r \in RemoteResults :
         IF r = "raise"
         THEN /\ Return([kind |-> "error_showing_balance"])
              /\ UNCHANGED target_wallet
         ELSE \E known \in BalanceDicts :
                /\ target_wallet' = FindWallet(wallet_address, known)
                /\ IF target_wallet' = NoWallet
                   THEN Return([kind |-> "wallet_not_found"])
                   ELSE Goto("show_reload")
    /\ UNCHANGED <<env_vars, now, sys_argv, from_address, to_address, quantity,
                   asset_id, wallet_info, current_balance, confirm,
                   wallet_address, wallet, wallets, transfer, wait_vars>>

\* target_wallet.reload(); target_wallet.balances();
\* target_wallet.default_address.transfers()
ShowBalances ==
    /\ pc = "show_reload"
    /\ \E r \in {"ok", "reload_raises", "balances_raises", "transfers_raises"} :
         /\ calls' = CASE r = "reload_raises" -> Called("wallet_reload")
                       [] r = "balances_raises" ->
                            [calls EXCEPT !.wallet_reload = @ + 1, !.balances = @ + 1]
                       [] OTHER ->
                            [calls EXCEPT !.wallet_reload = @ + 1, !.balances = @ + 1,
                                          !.transfers = @ + 1]
         /\ IF r = "reload_raises"
            THEN UNCHANGED target_wallet
            ELSE \E current \in BalanceDicts :
                   target_wallet' = Reloaded(target_wallet, current)
         /\ Return([kind |-> IF r = "ok" THEN "balance_shown"
                             ELSE "error_showing_balance"])
    /\ UNCHANGED <<env_vars, now, sys_argv, from_address, to_address, quantity,
                   asset_id, wallet_info, current_balance, confirm,
                   wallet_address, wallet, wallets, transfer, wait_vars>>

(***************************************************************************)
(* main                                                                    *)
(***************************************************************************)
\* if len(sys.argv) < 2: print_usage(); return.  manager = WalletManager():
\* _load_credentials ends in sys.exit(1) when the key file is missing or the
\* SDK rejects it.
Main ==
    /\ pc = "main"
    /\ IF Len(sys_argv) < 2
       THEN Return([kind |-> "usage"])
       ELSE \/ /\ pc' = "dispatch"
               /\ UNCHANGED <<outcome, exit_code>>
            \/ Die([kind |-> "credentials_error"])
    /\ UNCHANGED <<env_vars, now, sys_argv, send_vars, transfer, wait_vars, calls>>

\* command = sys.argv[1].lower() and the if/elif chain
Dispatch ==
    /\ pc = "dispatch"
    /\ LET command == Lower(Arg(1)) IN
       CASE command = T_create_wallet ->
              /\ pc' = "create_wallet"
              /\ UNCHANGED <<outcome, exit_code, from_address, to_address, quantity,
                             asset_id, wallet_address>>
         [] command = T_list_wallets ->
              /\ pc' = "list_wallets"
              /\ UNCHANGED <<outcome, exit_code, from_address, to_address, quantity,
                             asset_id, wallet_address>>
         [] command = T_send /\ Len(sys_argv) = 6 ->
              IF FloatRaises(Arg(4))
              THEN /\ Die([kind |-> "uncaught_value_error"])
                   /\ UNCHANGED <<from_address, to_address, quantity, asset_id,
                                  wallet_address>>
              ELSE /\ from_address' = Arg(2)
                   /\ to_address' = Arg(3)
                   /\ quantity' = ParseFloat(Arg(4))
                   /\ asset_id' = Arg(5)
                   /\ pc' = "send_tokens"
                   /\ UNCHANGED <<outcome, exit_code, wallet_address>>
         [] command = T_show_balance /\ Len(sys_argv) = 3 ->
              /\ wallet_address' = Arg(2)
              /\ pc' = "show_balance"
              /\ UNCHANGED <<outcome, exit_code, from_address, to_address, quantity,
                             asset_id>>
         [] OTHER ->
              /\ Return([kind |-> "usage"])
              /\ UNCHANGED <<from_address, to_address, quantity, asset_id,
                             wallet_address>>
    /\ UNCHANGED <<env_vars, now, sys_argv, wallet_info, target_wallet,
                   current_balance, confirm, wallet, wallets, transfer, wait_vars,
                   calls>>

(***************************************************************************)
(* One run of the tool.  The wallet directory, the wallets the service     *)
(* knows, the configured network and the command line are arbitrary.  The  *)
(* reloads and sleeps of the polling loop take their nominal time here;    *)
(* SpecWait varies them.                                                   *)
(***************************************************************************)
StoredFiles ==
    {[a \in D |-> WalletRecord(a, TestNetwork)] : D \in SUBSET Addresses}

Init ==
    /\ files \in StoredFiles
    /\ remote \in SUBSET Addresses
    /\ network \in Networks
    /\ now = 0
    /\ pc = "main"
    /\ sys_argv \in ArgvSet
    /\ exit_code = Running
    /\ outcome = [kind |-> "none"]
    /\ from_address = None /\ to_address = None
    /\ quantity = None /\ asset_id = None
    /\ wallet_info = None /\ target_wallet = NoWallet
    /\ current_balance = None /\ confirm = NoText
    /\ wallet_address = None /\ wallet = NoWallet /\ wallets = <<>>
    /\ transfer = None
    /\ remote_status = NoText
    /\ timeout_minutes = None
    /\ timeout = None
    /\ wait_result = None
    /\ wait_message = None
    /\ calls = NoCalls
    /\ transfer_call = <<>>
    /\ pending_seen = 0
    /\ files_at_start = files

Next ==
    \/ Main
    \/ Dispatch
    \/ CreateWallet
    \/ CreateSave
    \/ CreateFaucet
    \/ ListWallets
    \/ ListShowWallet
    \/ ShowLoadWallet
    \/ ShowFindWallet
    \/ ShowBalances
    \/ SendLoadWallet
    \/ SendFindWallet
    \/ SendReloadWallet
    \/ SendCheckBalance
    \/ SendConfirm
    \/ SendCreateTransfer
    \/ WaitStart
    \/ WaitCheck
    \/ WaitReload(0)
    \/ WaitSleep(0)
    \/ SendAfterWait
    \/ RemoteSettles

Spec == Init /\ [][Next]_vars

(***************************************************************************)
(* _wait_for_transfer on its own: any transfer handle, any timeout_minutes *)
(* up to MaxTimeoutMinutes, reloads and sleeps of varying length.          *)
(***************************************************************************)
InitWait ==
    /\ files = <<>>
    /\ remote = {}
    /\ network = TestNetwork
    /\ now = 0
    /\ pc = "wait_start"
    /\ sys_argv = <<>>
    /\ exit_code = Running
    /\ outcome = [kind |-> "none"]
    /\ from_address = None /\ to_address = None
    /\ quantity = None /\ asset_id = None
    /\ wallet_info = None /\ target_wallet = NoWallet
    /\ current_balance = None /\ confirm = NoText
    /\ wallet_address = None /\ wallet = NoWallet /\ wallets = <<>>
    /\ remote_status \in Statuses
    /\ transfer = [status |-> remote_status]
    /\ timeout_minutes \in 0..MaxTimeoutMinutes
    /\ timeout = None
    /\ wait_result = None
    /\ wait_message = None
    /\ calls = NoCalls
    /\ transfer_call = <<>>
    /\ pending_seen = 0
    /\ files_at_start = files

NextWait ==
    \/ WaitStart
    \/ WaitCheck
    \/ \E latency \in 0..MaxLatency : WaitReload(latency)
    \/ \E jitter \in 0..MaxJitter : WaitSleep(jitter)
    \/ RemoteSettles

SpecWait == InitWait /\ [][NextWait]_vars

(***************************************************************************)
(* Properties.                                                             *)
(***************************************************************************)
\* the run is a send command that reached send_tokens, whose parameters are
\* bound
SendRan == from_address # None

\* send_tokens has read the balance of the asset after the wallet refresh
BalanceRead ==
    /\ SendRan
    /\ calls.balances > 0
    /\ outcome.kind # "error_checking_balance"

\* the balance kept under the asset id, whatever the case it was typed in;
\* nothing when the wallet does not hold the asset
HeldBalance(balances, typed) ==
    IF \E k \in DOMAIN balances : Lower(typed) = k
    THEN balances[CHOOSE k \in DOMAIN balances : Lower(typed) = k]
    ELSE 0

\* C1 as stated: once the balance b is read for quantity q, the transfer is
\* created iff q <= b, and q > b ends in the insufficient-balance report with
\* required = q, available = b and no transfer created.
C1_AsStated ==
    (BalanceRead /\ pc = "exit") =>
        /\ (calls.transfer > 0) <=> (quantity <= current_balance)
        /\ quantity > current_balance =>
             /\ outcome = [kind |-> "insufficient_balance", required |-> quantity,
                           available |-> current_balance]
             /\ calls.transfer = 0

\* C1, amended: the balance b that is compared is the one the refresh
\* brought for the asset (0 when the wallet does not hold it); the transfer
\* is created only if q <= b, and, q <= b given, iff the operator answers
\* yes; q > b ends in the insufficient-balance report with required = q,
\* available = b and no transfer created, and that report is made only then.
C1_BalanceGuard ==
    BalanceRead =>
        /\ pc \in {"send_confirm", "send_transfer"} =>
             /\ target_wallet.reloaded
             /\ current_balance = HeldBalance(target_wallet.balances, Arg(5))
        /\ calls.transfer > 0 => (quantity <= current_balance /\ confirm = T_yes)
        /\ (pc = "exit" /\ quantity <= current_balance /\ confirm = T_yes)
             => calls.transfer = 1
        /\ (quantity > current_balance) <=>
             (pc = "exit" /\ outcome.kind = "insufficient_balance")
        /\ outcome.kind = "insufficient_balance" =>
             /\ outcome.required = quantity
             /\ outcome.available = current_balance
             /\ outcome.available = HeldBalance(target_wallet.balances, Arg(5))
             /\ calls.transfer = 0

\* a send of 2 from a wallet that holds 1 of the asset was refused
C1_Witness ==
    /\ BalanceRead
    /\ pc = "exit"
    /\ outcome.kind = "insufficient_balance"
    /\ outcome.required = 2
    /\ outcome.available = 1

\* the remote calls send_tokens makes before it asks for confirmation
CallsBeforeConfirm ==
    [NoCalls EXCEPT !.list = 1, !.wallet_reload = 1, !.balances = 1]

\* C2: when the operator's answer is anything but yes (in any case), the
\* send ends as cancelled: no transfer is created, no transfer is reloaded, no
\* remote call at all follows the answer, and the wallet files are as they
\* were; and a cancelled outcome arises in no other way.
C2_DeclineCancels ==
    /\ (SendRan /\ confirm # NoText /\ confirm # T_yes) =>
          /\ pc = "exit"
          /\ outcome = [kind |-> "cancelled"]
          /\ exit_code = 0
          /\ calls.transfer = 0
          /\ calls.transfer_reload = 0
          /\ calls = CallsBeforeConfirm
          /\ transfer = None
          /\ transfer_call = <<>>
          /\ files = files_at_start
    /\ outcome.kind = "cancelled" => (SendRan /\ confirm # NoText /\ confirm # T_yes)

\* the operator answered "y", which is not the affirmative answer
C2_Witness ==
    /\ SendRan
    /\ pc = "exit"
    /\ outcome.kind = "cancelled"
    /\ confirm = <<"y">>

\* the same letter, in either case
SameLetter(c, d) ==
    \/ c = d
    \/ \E i \in 1..26 : {c, d} = {UpperLetters[i], LowerLetters[i]}

\* equal but for the case of the letters
EqualIgnoringCase(a, b) ==
    /\ Len(a) = Len(b)
    /\ \A i \in 1..Len(a) : SameLetter(a[i], b[i])

\* C3: the gasless flag passed to the transfer call is true iff the asset
\* typed on the command line is "usdc" in any case.
C3_GaslessIffUsdc ==
    (SendRan /\ calls.transfer > 0) =>
        /\ transfer_call.gasless <=> EqualIgnoringCase(Arg(5), T_usdc)
        /\ transfer_call.asset_id = Lower(Arg(5))

\* a transfer of "USDC", typed in capitals, was created gasless
C3_Witness ==
    /\ SendRan
    /\ calls.transfer > 0
    /\ Arg(5) = <<"U","S","D","C">>
    /\ transfer_call.gasless

\* the status the transfer handle holds is the one its last reload brought
Observed ==
    /\ wait_message # None \/ pc \in {"wait_check", "wait_reload", "wait_sleep"}
    /\ calls.transfer_reload > 0
    /\ outcome.kind # "error_sending_tokens"

\* the words of the classification each status text holds, in any case
StatusWords ==
    [s \in Statuses |->
        {word \in {T_complete, T_failed, T_pending} : Contains(word, Lower(s))}]

\* the status text holds the word, in any case
Mentions(text, word) == word \in StatusWords[text]

\* _wait_for_transfer has returned to its caller
Returned == pc \in {"send_after_wait", "exit"}

\* C4: a transfer whose reloads see n pending statuses and then a complete
\* one is reported as succeeded by the reload that sees it, which is reload
\* n+1, and the transfer is never reloaded again.
C4_SucceedsOnReloadNPlusOne ==
    /\ (Observed /\ Mentions(transfer.status, T_complete)) => wait_message = "completed"
    /\ wait_message = "completed" =>
          /\ wait_result = TRUE
          /\ Returned
          /\ Mentions(transfer.status, T_complete)
          /\ calls.transfer_reload = pending_seen + 1
          /\ (pc = "exit" /\ outcome.kind # "error_sending_tokens")
                => outcome = [kind |-> "transfer_completed"]

\* pending, pending, complete: succeeded after exactly 3 reloads
C4_Witness ==
    /\ pc = "exit"
    /\ wait_message = "completed"
    /\ pending_seen = 2
    /\ calls.transfer_reload = 3

\* C5 as stated: the loop gives up no later than one poll interval after the
\* deadline.
C5_AsStated ==
    wait_message = "timed_out" => now <= timeout + PollInterval

\* the most reloads that fit before the deadline
MostReloads == (timeout_minutes * SecondsPerMinute + PollInterval - 1) \div PollInterval

\* C5, amended: a transfer that stays pending until the deadline makes the
\* loop end: it reports the timeout and returns False, after at most
\* ceil(timeout / poll interval) reloads, none of them begun at or after the
\* deadline; it stops no later than one round of the loop after the deadline,
\* a round being the reload, the sleep of one poll interval and the time by
\* which the sleep overruns.
C5_TimesOut ==
    /\ pc # "wait_start" => calls.transfer_reload <= MostReloads
    /\ pc = "wait_reload" => now < timeout
    /\ wait_message = "timed_out" =>
          /\ wait_result = FALSE
          /\ Returned
          /\ pending_seen = calls.transfer_reload
          /\ now >= timeout
          /\ now < timeout + MaxLatency + PollInterval + MaxJitter
    /\ (pc = "send_after_wait" /\ pending_seen = calls.transfer_reload)
          => wait_message = "timed_out"

\* the loop gave up more than one poll interval after the deadline
C5_Witness ==
    /\ wait_message = "timed_out"
    /\ pending_seen > 0
    /\ now > timeout + PollInterval

\* C6 as stated: a reload that sees a status text holding "failed" makes the
\* loop return failed.
C6_AsStated ==
    (Observed /\ Mentions(transfer.status, T_failed)) => wait_message = "failed"

\* C6, amended: a reload that sees a status text holding "failed" and not
\* "complete" makes the loop return failed at once: no sleep and no reload
\* follows, whatever is left of the timeout.
C6_FailsAtOnce ==
    /\ (Observed /\ Mentions(transfer.status, T_failed)
                 /\ ~Mentions(transfer.status, T_complete)) =>
          /\ wait_message = "failed"
          /\ wait_result = FALSE
          /\ Returned
          /\ calls.transfer_reload = pending_seen + 1
          /\ now = PollInterval * pending_seen
          /\ pc = "exit" => outcome = [kind |-> "transfer_failed_or_timed_out"]
    /\ wait_message = "failed" =>
          (Mentions(transfer.status, T_failed) /\ ~Mentions(transfer.status, T_complete))

\* the first reload saw a failed status and the loop returned with the whole
\* timeout left
C6_Witness ==
    /\ pc = "send_after_wait"
    /\ wait_message = "failed"
    /\ calls.transfer_reload = 1
    /\ now = 0
    /\ timeout = DefaultTimeoutMinutes * SecondsPerMinute

\* the status text holds none of the three words the loop knows
Unrecognised(text) ==
    /\ ~Mentions(text, T_complete)
    /\ ~Mentions(text, T_failed)
    /\ ~Mentions(text, T_pending)

\* C7: a reload that sees a status text holding none of "complete", "failed"
\* and "pending" makes the loop return failed with the unexpected-status
\* report; no sleep and no reload follows.
C7_UnexpectedStatusFails ==
    /\ (Observed /\ Unrecognised(transfer.status)) =>
          /\ wait_message = "unexpected_status"
          /\ wait_result = FALSE
          /\ Returned
          /\ calls.transfer_reload = pending_seen + 1
          /\ now = PollInterval * pending_seen
          /\ pc = "exit" => outcome = [kind |-> "transfer_failed_or_timed_out"]
    /\ wait_message = "unexpected_status" => Unrecognised(transfer.status)

\* the second reload saw "archived"
C7_Witness ==
    /\ pc = "exit"
    /\ wait_message = "unexpected_status"
    /\ transfer.status = <<"a","r","c","h","i","v","e","d">>
    /\ calls.transfer_reload = 2

\* C8 as stated: what the loop returns, and what send_tokens reports, after a
\* timeout is not what they are after a failed or unrecognised status (False,
\* and "Transfer failed or timed out!").
C8_AsStated ==
    (pc = "exit" /\ wait_message = "timed_out") =>
        <<wait_result, outcome.kind>> # <<FALSE, "transfer_failed_or_timed_out">>

\* C8, amended: a transfer that reaches the deadline without a terminal status
\* is told apart only by the message the loop prints ("Transfer timed out",
\* printed when and only when the deadline ended the loop); the value the loop
\* returns (False) and the report of send_tokens ("Transfer failed or timed
\* out!") are the same as after a failed or unrecognised status.
C8_TimeoutReturnsAsFailure ==
    /\ wait_message \in {"timed_out", "failed", "unexpected_status"} =>
          /\ wait_result = FALSE
          /\ Returned
          /\ pc = "exit" =>
                /\ outcome = [kind |-> "transfer_failed_or_timed_out"]
                /\ exit_code = 0
    /\ wait_message = "timed_out" =>
          /\ now >= timeout
          /\ calls.transfer_reload = pending_seen
    /\ wait_message \in {"failed", "unexpected_status"} =>
          /\ calls.transfer_reload = pending_seen + 1
          /\ now < timeout

\* a send ended after its transfer stayed pending for the whole timeout
C8_Witness ==
    /\ pc = "exit"
    /\ wait_message = "timed_out"
    /\ calls.transfer_reload = MostReloads
    /\ outcome.kind = "transfer_failed_or_timed_out"

\* Wallet.list() raised
ListRaised ==
    /\ calls.list = 1
    /\ calls.wallet_reload = 0
    /\ outcome.kind = "error_sending_tokens"

CreateRan == calls.create > 0

\* C10 as stated: create_wallet asks the faucet iff the network is the test
\* network, and a failed funding leaves the record in place and the process
\* ending normally.
C10_AsStated ==
    (CreateRan /\ pc = "exit") =>
        /\ (calls.faucet > 0) <=> (network = TestNetwork)
        /\ outcome.kind = "wallet_created" => exit_code = 0

\* C10, amended: create_wallet asks the faucet, once, iff the network is the
\* test network and the wallet was created and its record written (a create
\* or a write that fails ends the process with status 1 before any funding);
\* a failed funding leaves the record in place and the process ends normally.
C10_FundsOnTestNetwork ==
    /\ calls.faucet > 0 =>
          /\ CreateRan
          /\ network = TestNetwork
          /\ calls.faucet = 1
          /\ wallet.address \in DOMAIN files
          /\ files[wallet.address] =
                [address |-> wallet.address, network |-> network,
                 wallet_id |-> WalletId(wallet.address)]
          /\ pc = "exit"
          /\ exit_code = 0
          /\ outcome.kind = "wallet_created"
          /\ outcome.faucet \in {"funded", "failed"}
    /\ (CreateRan /\ pc = "exit") =>
          /\ (calls.faucet > 0) <=> (network = TestNetwork /\ exit_code = 0)
          /\ exit_code = 0 =>
                /\ outcome.kind = "wallet_created"
                /\ wallet.address \in DOMAIN files
                /\ files[wallet.address].network = network

\* the faucet failed on the test network and the wallet stands
C10_Witness ==
    /\ CreateRan
    /\ pc = "exit"
    /\ network = TestNetwork
    /\ outcome = [kind |-> "wallet_created", faucet |-> "failed"]
    /\ exit_code = 0
    /\ wallet.address \in DOMAIN files

\* the errors the operations report and return from
ReportedErrors ==
    {"error_listing_wallets", "error_showing_balance", "error_sending_tokens",
     "error_checking_balance", "wallet_file_not_found", "wallet_not_found",
     "insufficient_balance", "transfer_failed_or_timed_out"}

\* the ends of the process with status 1
FatalErrors ==
    {"credentials_error", "uncaught_value_error", "error_creating_wallet"}

\* C11 as stated: an operation that started after a successful startup never
\* ends the process with an error status.
C11_AsStated ==
    (pc = "exit" /\ outcome.kind \notin {"usage", "credentials_error",
                                         "uncaught_value_error"})
        => exit_code = 0

\* C11, amended: the errors of list-wallets, send and show-balance, a remote
\* call that throws included, are caught at the operation boundary, reported,
\* and the process ends normally; create-wallet ends the process with status
\* 1 when the remote create call or the write of the record fails, before any
\* funding is asked for; the only other ends with status 1 are the startup
\* failure of the credentials and the quantity of send that is no number,
\* both before any operation starts.
C11_ErrorsAtBoundary ==
    pc = "exit" =>
        /\ exit_code \in {0, 1}
        /\ exit_code = 1 <=> outcome.kind \in FatalErrors
        /\ outcome.kind \in ReportedErrors => exit_code = 0
        /\ outcome.kind = "error_creating_wallet" =>
              /\ Lower(Arg(1)) = T_create_wallet
              /\ calls = [NoCalls EXCEPT !.create = 1]
        /\ outcome.kind \in {"credentials_error", "uncaught_value_error"} =>
              calls = NoCalls
        /\ (calls # NoCalls /\ Lower(Arg(1)) # T_create_wallet) => exit_code = 0

\* the reload of the wallet after a completed transfer raised; send_tokens
\* reported it and the process ended normally
C11_Witness ==
    /\ pc = "exit"
    /\ wait_message = "completed"
    /\ outcome.kind = "error_sending_tokens"
    /\ exit_code = 0

\* the command line names no operation with the arguments it needs
Malformed ==
    \/ Len(sys_argv) < 2
    \/ /\ Len(sys_argv) >= 2
       /\ LET command == Lower(Arg(1)) IN
          \/ command \notin {T_create_wallet, T_list_wallets, T_send, T_show_balance}
          \/ command = T_send /\ Len(sys_argv) # 6
          \/ command = T_show_balance /\ Len(sys_argv) # 3
          \/ command = T_send /\ Len(sys_argv) = 6 /\ FloatRaises(Arg(4))

\* C12: every malformed command line (no command, unknown command, wrong
\* number of arguments for send or show-balance, a quantity that is no
\* number) ends, once startup has succeeded, with the usage text and status 0,
\* and no wallet operation.
C12_AsStated ==
    (pc = "exit" /\ Malformed /\ outcome.kind # "credentials_error") =>
        /\ outcome = [kind |-> "usage"]
        /\ exit_code = 0
        /\ calls = NoCalls
        /\ files = files_at_start

\* the transfer call raised: the service holds no transfer
SubmissionThrew == calls.transfer > 0 /\ remote_status = NoText

\* C13: send_tokens makes the transfer call at most once, whatever the
\* remote service answers: the polling loop only reloads the transfer it was
\* given, and a transfer call that raises ends the operation with an error
\* report and no reload.
C13_SubmitsOnce ==
    /\ calls.transfer <= 1
    /\ calls.transfer_reload > 0 =>
          /\ calls.transfer = 1
          /\ transfer_call = [amount |-> quantity, asset_id |-> asset_id,
                              destination |-> to_address,
                              gasless |-> Gasless(asset_id)]
    /\ pc \in {"wait_start", "wait_check", "wait_reload", "wait_sleep",
               "send_after_wait"} => calls.transfer = 1
    /\ SubmissionThrew =>
          /\ pc = "exit"
          /\ outcome = [kind |-> "error_sending_tokens"]
          /\ exit_code = 0
          /\ calls.transfer_reload = 0
          /\ calls = [CallsBeforeConfirm EXCEPT !.transfer = 1]

\* the transfer call raised and the send ended
C13_Witness ==
    /\ SubmissionThrew
    /\ pc = "exit"
    /\ calls.transfer = 1
    /\ calls.transfer_reload = 0

OnlyReloads ==
    /\ calls'.transfer = calls.transfer
    /\ calls'.create = calls.create
    /\ calls'.list = calls.list
    /\ calls'.faucet = calls.faucet
    /\ calls'.transfers = calls.transfers

\* C15: once the transfer is submitted the tool only observes it: the handle
\* changes only by a reload, which brings the status the service holds; no
\* step of the tool other than a reload goes with a change of the status the
\* service holds; and the service may complete the transfer after the tool
\* has reported a timeout.
C15_OnlyObserved ==
    [][ /\ pc # "send_transfer" =>
              (transfer' # transfer =>
                  /\ pc = "wait_reload"
                  /\ transfer' = [status |-> remote_status'])
        /\ remote_status' # remote_status =>
              \/ pc \in {"send_transfer", "wait_reload"}
              \/ /\ wait_message = "timed_out"
                 /\ UNCHANGED <<pc, transfer, calls, outcome, exit_code>>
        /\ calls.transfer > 0 => OnlyReloads
      ]_vars

\* the send ended with a timeout, the handle still pending, and the service
\* has completed the transfer since
C15_Witness ==
    /\ pc = "exit"
    /\ wait_message = "timed_out"
    /\ outcome.kind = "transfer_failed_or_timed_out"
    /\ Classify(transfer.status) = "pending"
    /\ Mentions(remote_status, T_complete)

\* C16: send_tokens reloads the wallet a second time iff the polling loop
\* returned success, and then once, after the last reload of the transfer; a
\* send that failed, met an unexpected status, timed out, was cancelled or
\* found the balance insufficient reloads the wallet only before the
\* submission.
C16_FinalReloadIffSucceeded ==
    SendRan =>
        /\ calls.wallet_reload <= 2
        /\ calls.wallet_reload = 2 <=> (pc = "exit" /\ wait_message = "completed")
        /\ calls.wallet_reload = 2 =>
              /\ wait_result = TRUE
              /\ calls.transfer_reload = pending_seen + 1
        /\ outcome.kind = "transfer_completed" =>
              /\ calls.wallet_reload = 2
              /\ calls.balances = 2
              /\ target_wallet.reloaded
        /\ outcome.kind \in {"transfer_failed_or_timed_out", "cancelled",
                             "insufficient_balance"} =>
              /\ calls.wallet_reload = 1
              /\ calls.balances = 1

\* a transfer completed on its second reload and the wallet was reloaded once
\* more
C16_Witness ==
    /\ SendRan
    /\ pc = "exit"
    /\ outcome.kind = "transfer_completed"
    /\ pending_seen = 1
    /\ calls.wallet_reload = 2

\* Wallet.create raised: create_wallet holds no wallet
CreateFailed == CreateRan /\ wallet = NoWallet

\* the record create_wallet writes for the wallet it made
CreatedRecord ==
    [address |-> wallet.address, network |-> network,
     wallet_id |-> WalletId(wallet.address)]

\* the record of the created wallet is in the wallet directory, under the
\* wallet's address
RecordPersisted ==
    /\ wallet.address \in DOMAIN files
    /\ files[wallet.address] = CreatedRecord

\* C17 as stated: a failed create ends the process with status 1, no record
\* and no funding; after a create that succeeded the record is persisted,
\* and is so before any funding.
C17_AsStated ==
    /\ CreateFailed =>
          /\ pc = "exit" /\ exit_code = 1
          /\ files = files_at_start
          /\ calls.faucet = 0
    /\ (CreateRan /\ ~CreateFailed /\ pc \in {"create_faucet", "exit"}) =>
          RecordPersisted

\* C17, amended: a failed create ends the process with status 1, no record
\* and no funding; after a create that succeeded the record {address,
\* network, wallet_id} is written under the wallet's address before any
\* funding is asked for, unless the write fails, which ends the process with
\* status 1 and no funding asked for.
C17_CreateThenPersist ==
    /\ CreateFailed =>
          /\ pc = "exit" /\ exit_code = 1
          /\ outcome = [kind |-> "error_creating_wallet"]
          /\ files = files_at_start
          /\ calls = [NoCalls EXCEPT !.create = 1]
    /\ (CreateRan /\ ~CreateFailed) =>
          /\ pc = "create_save" => (files = files_at_start /\ calls.faucet = 0)
          /\ pc = "create_faucet" => (RecordPersisted /\ calls.faucet = 0)
          /\ calls.faucet > 0 => RecordPersisted
          /\ (pc = "exit" /\ exit_code = 0) => RecordPersisted
          /\ (pc = "exit" /\ exit_code = 1) =>
                /\ outcome = [kind |-> "error_creating_wallet"]
                /\ files = files_at_start
                /\ calls.faucet = 0

\* a wallet was created off the test network and its record stands, with no
\* funding asked for
C17_Witness ==
    /\ CreateRan
    /\ pc = "exit"
    /\ exit_code = 0
    /\ network # TestNetwork
    /\ RecordPersisted
    /\ calls.faucet = 0

\* C18: no operation deletes a wallet record, and send, show-balance and
\* list-wallets leave the wallet directory as they found it, whatever their
\* outcome; the only record a run writes is that of the wallet it created.
C18_RecordsImmutable ==
    /\ DOMAIN files_at_start \subseteq DOMAIN files
    /\ ~CreateRan => files = files_at_start
    /\ \A a \in DOMAIN files :
          (a \notin DOMAIN files_at_start \/ files[a] # files_at_start[a]) =>
              /\ CreateRan
              /\ a = wallet.address
              /\ files[a] = CreatedRecord

\* a send completed a transfer from a wallet with a record, and the wallet
\* directory is as it was
C18_Witness ==
    /\ SendRan
    /\ pc = "exit"
    /\ outcome.kind = "transfer_completed"
    /\ from_address \in DOMAIN files
    /\ files = files_at_start

\* the loop is between two reloads
Polling == pc \in {"wait_sleep", "wait_check", "wait_reload"}

\* what the loop did with the status its last reload brought
Verdict ==
    IF wait_message = "completed" THEN "succeeded"
    ELSE IF wait_message = "failed" THEN "failed"
    ELSE IF wait_message = "unexpected_status" THEN "unexpected"
    ELSE IF Polling \/ wait_message = "timed_out" THEN "continued"
    ELSE "none"

\* C19: every status a reload brings is classified by exactly one of four
\* branches, looked for in this order in the lower-cased text: "complete"
\* (succeeded, whatever else the text holds), then "failed" (failed, even
\* with "pending"), then "pending" (the loop goes on), else unexpected
\* (failed).
C19_ClassifyPrecedence ==
    Observed =>
        LET words == StatusWords[transfer.status] IN
        /\ Verdict \in {"succeeded", "failed", "continued", "unexpected"}
        /\ T_complete \in words => Verdict = "succeeded"
        /\ (T_complete \notin words /\ T_failed \in words) => Verdict = "failed"
        /\ (T_complete \notin words /\ T_failed \notin words
                /\ T_pending \in words) => Verdict = "continued"
        /\ words = {} => Verdict = "unexpected"
        /\ Verdict = "continued" => pending_seen = calls.transfer_reload
        /\ Verdict # "continued" =>
              (Returned /\ calls.transfer_reload = pending_seen + 1)

\* a reload brought "pending_complete" and the loop returned success
C19_Witness ==
    /\ Observed
    /\ transfer.status = <<"p","e","n","d","i","n","g","_","c","o","m","p","l","e","t","e">>
    /\ wait_message = "completed"
    /\ wait_result = TRUE

\* C20: the loop classifies only what its own reloads bring, and tests the
\* deadline only before a reload: success is returned only after a reload,
\* begun before the deadline, that brought a status holding "complete"; with
\* no reload made nothing is classified, whatever status the transfer was
\* created with; and with the deadline passed at the first test (a timeout of
\* 0 minutes) no reload is made and the loop reports a timeout, even if the
\* transfer is complete at the service.
C20_ClassifiesOwnReloads ==
    /\ pc = "wait_reload" => now < timeout
    /\ wait_message = "completed" =>
          /\ calls.transfer_reload >= 1
          /\ Mentions(transfer.status, T_complete)
          /\ now < timeout + MaxLatency
    /\ calls.transfer_reload = 0 =>
          /\ wait_message \in {None, "timed_out"}
          /\ wait_message = "timed_out" => wait_result = FALSE
          /\ pending_seen = 0
    /\ timeout_minutes = 0 =>
          /\ calls.transfer_reload = 0
          /\ pc \notin {"wait_start", "wait_check"} =>
                /\ Returned
                /\ wait_message = "timed_out"
                /\ wait_result = FALSE

\* with a timeout of 0 minutes the loop reported a timeout without a reload,
\* for a transfer that was created complete and is complete at the service
C20_Witness ==
    /\ timeout_minutes = 0
    /\ wait_message = "timed_out"
    /\ calls.transfer_reload = 0
    /\ Mentions(transfer.status, T_complete)
    /\ Mentions(remote_status, T_complete)

====
